---- MODULE Spec2Model ----
(***************************************************************************)
(* Model of mediagoblin/media_types/stl/model_loader.py (Python 2):        *)
(* ThreeDee.__init__, ObjModel, BinaryStlModel and auto_detect.            *)
(*                                                                         *)
(* A file object is a sequence of bytes (0..255) plus a read position.     *)
(* Text is the byte sequence of its ASCII characters, so one stream can be *)
(* read by the line parser and by the binary decoder alike.                *)
(*                                                                         *)
(* Numbers: the coordinates of the model are integers.  float() is         *)
(* modelled on the tokens the input alphabet can form (an optional sign    *)
(* and decimal digits; anything else is a ValueError), and a float         *)
(* average is kept as the exact fraction num/den.                          *)
(***************************************************************************)
EXTENDS Integers, Sequences, FiniteSets, TLC

VARIABLES
    fileob,   \* the bytes of the stream handed in by the caller
    pos,      \* the stream's read position (0-based offset)
    hint,     \* auto_detect's hint: "obj", "stl" or "None"
    op,       \* which entry point the caller invoked
    pc,       \* position in the invoked function
    exc,      \* the exception that left the entry point, if any
    model,    \* the object returned to the caller, if any
    log       \* history: one record per constructor invocation

vars == <<fileob, pos, hint, op, pc, exc, model, log>>

----------------------------------------------------------------------------
(* Bounds of the input space *)

MaxLines == 2
MaxTok == 4
MaxTri == 2

(* Program constants *)

HeaderLen == 80
Expected == 3
Dim == 3
VectorLen == 3
TriVerts == 3

----------------------------------------------------------------------------
(* Bytes and characters *)

Ch == [v |-> 118, f |-> 102, x |-> 120, sp |-> 32, nl |-> 10,
       minus |-> 45, plus |-> 43, zero |-> 48, nine |-> 57]

\* string.whitespace of Python 2: \t \n \v \f \r and space
Whitespace == {9, 10, 11, 12, 13, 32}

Min2(a, b) == IF a < b THEN a ELSE b

Abs(a) == IF a < 0 THEN -a ELSE a

\* fileob.read(n) at position p: at most n bytes, fewer at end of file
Read(f, p, n) == SubSeq(f, p + 1, Min2(p + n, Len(f)))

----------------------------------------------------------------------------
(* Exceptions *)

NoExc == [type |-> "none", msg |-> ""]

EmptyModelExc == [type |-> "ThreeDeeParseError", msg |-> "Empyt model."]

UnrecognizedExc ==
    [type |-> "ThreeDeeParseError",
     msg |-> "Could not successfully parse the model :("]

Raised(t) == [type |-> t, msg |-> ""]

----------------------------------------------------------------------------
(* BinaryStlModel *)

RECURSIVE UnpackLE(_)
\* little-endian unsigned value of a byte string
UnpackLE(bytes) ==
    IF bytes = <<>> THEN 0 ELSE Head(bytes) + 256 * UnpackLE(Tail(bytes))

\* struct.unpack(form, data)[0] for data of the format's exact width.  "<i"
\* is two's complement: the top byte carries the sign.  (Unsigned values of
\* 2^31 and more are outside the integers TLC computes with; the inputs keep
\* the top byte of an unsigned field below 128.)
Unpack(form, data) ==
    IF form = "<i"
    THEN LET top == data[Len(data)]
             low == UnpackLE(SubSeq(data, 1, Len(data) - 1))
         IN  low + 2^(8 * (Len(data) - 1)) * (IF top >= 128 THEN top - 256 ELSE top)
    ELSE UnpackLE(data)

\* mutation of NumBits: the attribute count read as a 32-bit field
NumBitsShortAs32(h) ==
    IF h = "uint" THEN 32 ELSE IF h = "real" THEN 32 ELSE 32

\* the width chosen by __num for each hint
NumBits(h) ==
    IF h = "uint" THEN 32 ELSE IF h = "real" THEN 32 ELSE 16

\* the struct format chosen by __num for each hint
NumForm(h) ==
    IF h = "uint" THEN "<I" ELSE IF h = "real" THEN "<i" ELSE "<H"

\* BinaryStlModel.__num: struct.unpack raises struct.error when read()
\* returned fewer bytes than the format needs
Num(f, p, h) ==
    LET width == NumBits(h) \div 8
        data == Read(f, p, width)
    IN  IF Len(data) # width
        THEN [ok |-> FALSE, val |-> 0, pos |-> p + Len(data)]
        ELSE [ok |-> TRUE, val |-> Unpack(NumForm(h), data), pos |-> p + width]

RECURSIVE ReadReals(_, _, _, _)
\* the list comprehension of __vector: n successive "real" fields
ReadReals(f, p, n, acc) ==
    IF n = 0 THEN [ok |-> TRUE, val |-> acc, pos |-> p]
    ELSE LET num == Num(f, p, "real")
         IN  IF ~num.ok THEN [ok |-> FALSE, val |-> acc, pos |-> num.pos]
             ELSE ReadReals(f, num.pos, n - 1, Append(acc, num.val))

\* BinaryStlModel.__vector
BinVector(f, p) == ReadReals(f, p, VectorLen, <<>>)

RECURSIVE ReadTriVerts(_, _, _, _)
\* the inner loop of load: the vertices of one triangle record
ReadTriVerts(f, p, n, verts) ==
    IF n = 0 THEN [ok |-> TRUE, verts |-> verts, pos |-> p]
    ELSE LET vec == BinVector(f, p)
         IN  IF ~vec.ok THEN [ok |-> FALSE, verts |-> verts, pos |-> vec.pos]
             ELSE ReadTriVerts(f, vec.pos, n - 1, Append(verts, vec.val))

RECURSIVE LoadTriangles(_, _, _, _, _)
\* the outer loop of load, from triangle i on
LoadTriangles(f, p, i, triangle_count, verts) ==
    IF i >= triangle_count
    THEN [exc |-> NoExc, verts |-> verts, pos |-> p]
    ELSE LET normal == BinVector(f, p)
         IN  IF ~normal.ok
             THEN [exc |-> Raised("struct.error"), verts |-> verts,
                   pos |-> normal.pos]
             ELSE
         LET tri == ReadTriVerts(f, normal.pos, TriVerts, verts)
         IN  IF ~tri.ok
             THEN [exc |-> Raised("struct.error"), verts |-> tri.verts,
                   pos |-> tri.pos]
             ELSE
         LET attr == Num(f, tri.pos, "short")
         IN  IF ~attr.ok
             THEN [exc |-> Raised("struct.error"), verts |-> tri.verts,
                   pos |-> attr.pos]
             ELSE LoadTriangles(f, attr.pos, i + 1, triangle_count, tri.verts)

\* range(triangle_count) builds the whole list in Python 2; whether a list
\* of that many integers can be allocated depends on the machine
RangeOutcomes(n) ==
    IF n >= 2^24 THEN {"ok", "MemoryError"} ELSE {"ok"}

\* BinaryStlModel.load: the set of outcomes [exc, verts, pos]
BinaryStlLoad(f, p) ==
    LET count == Num(f, HeaderLen, "uint")
    IN  IF ~count.ok
        THEN {[exc |-> Raised("struct.error"), verts |-> <<>>, pos |-> count.pos]}
        ELSE { IF o = "MemoryError"
               THEN [exc |-> Raised("MemoryError"), verts |-> <<>>,
                     pos |-> count.pos]
               ELSE LoadTriangles(f, count.pos, 0, count.val, <<>>)
               : o \in RangeOutcomes(count.val) }

----------------------------------------------------------------------------
(* ObjModel *)

\* the least element of a non-empty set of integers
Least(S) == CHOOSE m \in S : \A n \in S : m <= n

\* the greatest element of a non-empty set of integers
Greatest(S) == CHOOSE m \in S : \A n \in S : m >= n

\* offset just past the line that starts at offset p: one past its "\n",
\* or the end of the file
LineEnd(f, p) ==
    LET ends == {j \in (p + 1)..Len(f) : f[j] = Ch.nl}
    IN  IF ends = {} THEN Len(f) ELSE Least(ends)

\* str.strip(): everything from the first to the last character that is
\* not whitespace
Strip(s) ==
    LET keep == {j \in 1..Len(s) : s[j] \notin Whitespace}
    IN  IF keep = {} THEN <<>> ELSE SubSeq(s, Least(keep), Greatest(keep))

\* index of the first sep in s, or 0
SepIndex(s, sep) ==
    LET at == {j \in 1..Len(s) : s[j] = sep}
    IN  IF at = {} THEN 0 ELSE Least(at)

RECURSIVE Split(_, _)
\* str.split(sep) with an explicit one-character separator: empty fields
\* are kept
Split(s, sep) ==
    LET i == SepIndex(s, sep)
    IN  IF i = 0 THEN <<s>>
        ELSE <<SubSeq(s, 1, i - 1)>> \o Split(SubSeq(s, i + 1, Len(s)), sep)

IsDigit(c) == c >= Ch.zero /\ c <= Ch.nine

RECURSIVE Digits(_, _)
\* value of a string of decimal digits, most significant first
Digits(s, acc) ==
    IF s = <<>> THEN acc ELSE Digits(Tail(s), 10 * acc + (Head(s) - Ch.zero))

\* float(tok): surrounding whitespace is ignored, then an optional sign and
\* decimal digits; every other token over the input alphabet is a ValueError
ParseFloat(tok) ==
    LET t == Strip(tok)
        signed == t # <<>> /\ Head(t) \in {Ch.minus, Ch.plus}
        body == IF signed THEN Tail(t) ELSE t
    IN  IF body = <<>> \/ \E i \in 1..Len(body) : ~IsDigit(body[i])
        THEN [ok |-> FALSE, val |-> 0]
        ELSE [ok |-> TRUE,
              val |-> IF signed /\ Head(t) = Ch.minus
                      THEN -Digits(body, 0) ELSE Digits(body, 0)]

\* map(float, tokens): every token is converted, the first failure raises
MapFloat(toks) ==
    IF \E i \in 1..Len(toks) : ~ParseFloat(toks[i]).ok
    THEN [ok |-> FALSE, val |-> <<>>]
    ELSE [ok |-> TRUE, val |-> [i \in 1..Len(toks) |-> ParseFloat(toks[i]).val]]

\* ObjModel.__vector: nums[:expected] of the converted tokens after the
\* marker; fewer than expected tokens give a shorter tuple
ObjVector(line) ==
    LET nums == MapFloat(Tail(Split(Strip(line), Ch.sp)))
    IN  IF ~nums.ok THEN nums
        ELSE [ok |-> TRUE,
              val |-> SubSeq(nums.val, 1, Min2(Expected, Len(nums.val)))]

RECURSIVE ObjLoadFrom(_, _, _)
\* the loop of ObjModel.load over the lines from offset p on
ObjLoadFrom(f, p, verts) ==
    IF p >= Len(f) THEN [exc |-> NoExc, verts |-> verts, pos |-> Len(f)]
    ELSE LET e == LineEnd(f, p)
             line == SubSeq(f, p + 1, e)
         IN  IF line[1] = Ch.v
             THEN LET vec == ObjVector(line)
                  IN  IF ~vec.ok
                      THEN [exc |-> Raised("ValueError"), verts |-> verts,
                            pos |-> e]
                      ELSE ObjLoadFrom(f, e, Append(verts, vec.val))
             ELSE ObjLoadFrom(f, e, verts)

\* ObjModel.load: the set of outcomes [exc, verts, pos].  When the loop is
\* left by an exception the position is the end of the offending line or,
\* for a file object that reads ahead, further on (here: the end of file)
ObjLoad(f, p) ==
    LET r == ObjLoadFrom(f, p, <<>>)
    IN  IF r.exc = NoExc THEN {r}
        ELSE {r, [r EXCEPT !.pos = Len(f)]}

----------------------------------------------------------------------------
(* ThreeDee.__init__ *)

\* None, and a value that is not None
None == <<>>
Some(n) == <<n>>

\* "not m" for m that is None or a number: None and zero are both false
Falsy(m) == m = None \/ m[1] = 0

\* the statistics before the first vertex
InitStats == [average |-> <<0, 0, 0>>,
              min |-> <<None, None, None>>,
              max |-> <<None, None, None>>]

\* the body of the loop over i for one coordinate
StatStep(st, num, i) ==
    LET avg == [st.average EXCEPT ![i] = @ + num]
    IN  IF Falsy(st.min[i])
        THEN [average |-> avg,
              min |-> [st.min EXCEPT ![i] = Some(num)],
              max |-> [st.max EXCEPT ![i] = Some(num)]]
        ELSE [average |-> avg,
              min |-> [st.min EXCEPT ![i] = IF @[1] > num THEN Some(num) ELSE @],
              max |-> [st.max EXCEPT ![i] = IF @[1] < num THEN Some(num) ELSE @]]

RECURSIVE StatAxes(_, _, _)
\* "for i in range(3)" over one vector, from axis i on; vector[i] of a
\* tuple with fewer coordinates raises IndexError
StatAxes(st, vector, i) ==
    IF i > Dim THEN [ok |-> TRUE, st |-> st]
    ELSE IF i > Len(vector) THEN [ok |-> FALSE, st |-> st]
    ELSE StatAxes(StatStep(st, vector[i], i), vector, i + 1)

RECURSIVE StatVerts(_, _, _)
\* "for vector in self.verts", from vertex k on
StatVerts(st, verts, k) ==
    IF k > Len(verts) THEN [ok |-> TRUE, st |-> st]
    ELSE LET r == StatAxes(st, verts[k], 1)
         IN  IF ~r.ok THEN r ELSE StatVerts(r.st, verts, k + 1)

\* average[i] /= len(verts): true division of floats (kept as an exact
\* fraction), floor division of Python 2 integers
Divide(sum, n, isfloat) ==
    IF isfloat THEN [num |-> sum, den |-> n]
    ELSE [num |-> sum \div n, den |-> 1]

NoModel == [kind |-> "none", verts |-> <<>>, average |-> <<>>,
            min |-> <<>>, max |-> <<>>,
            width |-> 0, depth |-> 0, height |-> 0]

\* mutation of EmptyCheck: the empty model is not rejected
EmptyCheckNever(verts) == FALSE

\* "if not len(self.verts)"
EmptyCheck(verts) == Len(verts) = 0

\* the statistics part of __init__, after the empty check
Statistics(kind, verts) ==
    LET r == StatVerts(InitStats, verts, 1)
        n == Len(verts)
    IN  IF ~r.ok THEN [exc |-> Raised("IndexError"), model |-> NoModel]
        ELSE IF n = 0 THEN [exc |-> Raised("ZeroDivisionError"), model |-> NoModel]
        ELSE LET mn == [i \in 1..Dim |-> r.st.min[i][1]]
                 mx == [i \in 1..Dim |-> r.st.max[i][1]]
             IN  [exc |-> NoExc,
                  model |-> [kind |-> kind,
                             verts |-> verts,
                             average |-> [i \in 1..Dim |->
                                 Divide(r.st.average[i], n, kind = "ObjModel")],
                             min |-> mn,
                             max |-> mx,
                             width |-> Abs(mn[1] - mx[1]),
                             depth |-> Abs(mn[2] - mx[2]),
                             height |-> Abs(mn[3] - mx[3])]]

\* the load method of the subclass
Load(kind, f, p) ==
    IF kind = "ObjModel" THEN ObjLoad(f, p) ELSE BinaryStlLoad(f, p)

\* one constructor call kind(fileob) with the stream at offset p: the set
\* of outcomes.  loadExc, loaded and statsRun record how far it got.
Construct(kind, f, p) ==
    { IF ld.exc # NoExc
      THEN [exc |-> ld.exc, model |-> NoModel, pos |-> ld.pos,
            loadExc |-> ld.exc.type, loaded |-> ld.verts, statsRun |-> FALSE]
      ELSE IF EmptyCheck(ld.verts)
      THEN [exc |-> EmptyModelExc, model |-> NoModel, pos |-> ld.pos,
            loadExc |-> "none", loaded |-> ld.verts, statsRun |-> FALSE]
      ELSE LET s == Statistics(kind, ld.verts)
           IN  [exc |-> s.exc, model |-> s.model, pos |-> ld.pos,
                loadExc |-> "none", loaded |-> ld.verts, statsRun |-> TRUE]
      : ld \in Load(kind, f, p) }

\* the history record of one constructor call
LogEntry(kind, p, r) ==
    [parser |-> kind, start |-> p, loadExc |-> r.loadExc, loaded |-> r.loaded,
     loadEnd |-> r.pos, statsRun |-> r.statsRun, exc |-> r.exc]

----------------------------------------------------------------------------
(* The streams a caller may hand in *)

\* tokens of a vertex line: "0", "-1", "12" and the non-number "x"
Tok == {<<48>>, <<45, 49>>, <<49, 50>>, <<120>>}

RECURSIVE Repeat(_, _)
\* k times a space and the token
Repeat(tok, k) ==
    IF k = 0 THEN <<>> ELSE <<Ch.sp>> \o tok \o Repeat(tok, k - 1)

\* the line "v tok tok ... tok\n" with k tokens
VLine(tok, k) == <<Ch.v>> \o Repeat(tok, k) \o <<Ch.nl>>

\* the face line "f 1\n"
FLine == <<Ch.f, Ch.sp, 49, Ch.nl>>

Lines == {FLine} \cup {VLine(tok, k) : tok \in Tok, k \in 0..MaxTok}

RECURSIVE TextOfLines(_)
\* the texts of exactly n lines
TextOfLines(n) ==
    IF n = 0 THEN {<<>>}
    ELSE {l \o t : l \in Lines, t \in TextOfLines(n - 1)}

TextStreams == UNION {TextOfLines(n) : n \in 0..MaxLines}

RECURSIVE Pack(_, _)
\* the w little-endian bytes of n (two's complement for n < 0)
Pack(n, w) ==
    IF w = 0 THEN <<>> ELSE <<n % 256>> \o Pack(n \div 256, w - 1)

Zeros(n) == [i \in 1..n |-> 0]

\* an 80-byte header: zeros, or zeros after a text that reads as a vertex
\* line (with and without its line end)
HeaderTexts == {<<>>, VLine(<<49, 50>>, 3),
                SubSeq(VLine(<<49, 50>>, 3), 1, Len(VLine(<<49, 50>>, 3)) - 1)}

Header(text) == text \o Zeros(HeaderLen - Len(text))

RECURSIVE Fields(_, _, _)
\* the 32-bit fields first, first + 1, ..., first + n - 1
Fields(first, n, w) ==
    IF n = 0 THEN <<>> ELSE Pack(first, w) \o Fields(first + 1, n - 1, w)

\* triangle record t: twelve 32-bit fields (normal, three vertices) that
\* count up from base + 12 t, and the 16-bit attribute count t
Record(base, t) == Fields(base + 12 * t, 12, 4) \o Pack(t, 2)

RECURSIVE Records(_, _, _)
Records(base, t, n) ==
    IF t >= n THEN <<>> ELSE Record(base, t) \o Records(base, t + 1, n)

Bases == {-5, 0}

\* declared triangle counts: the records present or fewer, and one count
\* no stream of the model can satisfy
Counts == (0..MaxTri) \cup {2^30}

BinaryFull(text, count, base) ==
    Header(text) \o Pack(count, 4) \o Records(base, 0, MaxTri)

\* every prefix of every binary file: complete, with trailing records, or
\* cut short anywhere
BinaryStreams ==
    {SubSeq(BinaryFull(text, count, base), 1, cut) :
        text \in HeaderTexts, count \in Counts, base \in Bases,
        cut \in 0..(HeaderLen + 4 + 50 * MaxTri)}

Streams == TextStreams \cup BinaryStreams

Hints == {"obj", "stl", "None"}

Ops == {"auto_detect", "ObjModel", "BinaryStlModel"}

----------------------------------------------------------------------------
(* The program *)

\* truth value of the hint: None is false
Truthy(h) == h # "None"

\* mutation of TriesObj: the first if is taken for every hint
TriesObjAlways(h) == TRUE

\* the condition of the first if of auto_detect
TriesObj(h) == h = "obj" \/ ~Truthy(h)

\* the condition of the second if of auto_detect
TriesStl(h) == h = "stl" \/ ~Truthy(h)

Init ==
    /\ fileob \in Streams
    /\ pos = 0
    /\ op \in Ops
    /\ hint \in (IF op = "auto_detect" THEN Hints ELSE {"None"})
    /\ pc = (IF op = "auto_detect" THEN "l129" ELSE "ctor")
    /\ exc = NoExc
    /\ model = NoModel
    /\ log = <<>>

\* "try: return kind(fileob)  except caught: pass", continuing at next
Attempt(kind, caught, next) ==
    \E r \in Construct(kind, fileob, pos) :
        /\ log' = Append(log, LogEntry(kind, pos, r))
        /\ pos' = r.pos
        /\ IF r.exc = NoExc
           THEN pc' = "returned" /\ model' = r.model /\ exc' = exc
           ELSE IF r.exc.type \in caught
           THEN pc' = next /\ UNCHANGED <<model, exc>>
           ELSE pc' = "raised" /\ exc' = r.exc /\ model' = model
        /\ UNCHANGED <<fileob, hint, op>>

\* auto_detect, first if: the OBJ parser
TryObj ==
    /\ pc = "l129"
    /\ IF TriesObj(hint)
       THEN Attempt("ObjModel", {"ThreeDeeParseError"}, "l135")
       ELSE pc' = "l135" /\ UNCHANGED <<fileob, pos, hint, op, exc, model, log>>

\* auto_detect, second if: the OBJ parser again, for ASCII STL
TryAsciiStl ==
    /\ pc = "l135"
    /\ IF TriesStl(hint)
       THEN Attempt("ObjModel", {"ThreeDeeParseError"}, "l143")
       ELSE pc' = "l153" /\ UNCHANGED <<fileob, pos, hint, op, exc, model, log>>

\* auto_detect, second if: the binary STL parser
TryBinaryStl ==
    /\ pc = "l143"
    /\ Attempt("BinaryStlModel", {"ThreeDeeParseError", "MemoryError"}, "l153")

\* auto_detect, last line
RaiseUnrecognized ==
    /\ pc = "l153"
    /\ pc' = "raised"
    /\ exc' = UnrecognizedExc
    /\ UNCHANGED <<fileob, pos, hint, op, model, log>>

\* a caller constructs a parser directly
CallConstructor ==
    /\ pc = "ctor"
    /\ Attempt(op, {}, "ctor")

Next ==
    \/ TryObj
    \/ TryAsciiStl
    \/ TryBinaryStl
    \/ RaiseUnrecognized
    \/ CallConstructor

Spec == Init /\ [][Next]_vars

Done == pc \in {"returned", "raised"}

----------------------------------------------------------------------------
(* Properties *)

Obj == "ObjModel"
Bin == "BinaryStlModel"

Attempts == 1..Len(log)

\* C1: in auto_detect every candidate attempted after a failed candidate
\* starts with the stream position reset to offset 0.
C1_RewindBetweenAttempts ==
    op = "auto_detect" => \A i \in Attempts : i > 1 => log[i].start = 0

\* C2: auto_detect has only two outcomes: it returns a populated model, or
\* it fails with the unrecognized-format error; no per-candidate failure
\* reaches the caller.
C2_OnlyTwoOutcomes ==
    (op = "auto_detect" /\ Done) =>
        \/ pc = "returned" /\ Len(model.verts) > 0
        \/ pc = "raised" /\ exc = UnrecognizedExc

\* a <= num/den <= b for den > 0
Between(a, q, b) == a * q.den <= q.num /\ q.num <= b * q.den

\* C3: for every non-empty vertex sequence loaded into a model,
\* min[i] <= average[i] <= max[i] on each axis.
C3_AverageWithinBounds ==
    pc = "returned" =>
        \A i \in 1..Dim : Between(model.min[i], model.average[i], model.max[i])

Coords(verts, i) == {verts[k][i] : k \in 1..Len(verts)}

RefMin(verts, i) == Least(Coords(verts, i))

RefMax(verts, i) == Greatest(Coords(verts, i))

\* C4: min[i] is the smallest and max[i] the largest i-th coordinate over
\* all vertices, so width, depth and height are the extents of the
\* bounding box.
C4_MinMaxAreExtremes ==
    pc = "returned" =>
        /\ \A i \in 1..Dim : /\ model.min[i] = RefMin(model.verts, i)
                             /\ model.max[i] = RefMax(model.verts, i)
        /\ model.width = RefMax(model.verts, 1) - RefMin(model.verts, 1)
        /\ model.depth = RefMax(model.verts, 2) - RefMin(model.verts, 2)
        /\ model.height = RefMax(model.verts, 3) - RefMin(model.verts, 3)

\* C5: with hint "obj" the binary STL parser is never invoked, and a failed
\* OBJ attempt ends the call in the unrecognized-format error after exactly
\* one candidate attempt.
C5_ObjHintOnlyObj ==
    (op = "auto_detect" /\ hint = "obj") =>
        /\ \A i \in Attempts : log[i].parser # Bin
        /\ (Done /\ Len(log) >= 1 /\ log[1].exc # NoExc) =>
               (Len(log) = 1 /\ pc = "raised" /\ exc = UnrecognizedExc)

Order(h) == IF h = "stl" THEN <<Obj, Bin>> ELSE <<Obj, Obj, Bin>>

\* C6: for hint "stl" and for no hint the candidates attempted are a prefix
\* of the order the hint fixes, a candidate runs only after every earlier
\* one has failed, and the model returned is the one the first successful
\* candidate produced.
C6_CandidateOrder ==
    (op = "auto_detect" /\ hint \in {"stl", "None"}) =>
        /\ Len(log) <= Len(Order(hint))
        /\ \A i \in Attempts : log[i].parser = Order(hint)[i]
        /\ \A i \in Attempts : i < Len(log) => log[i].exc # NoExc
        /\ pc = "returned" =>
               /\ Len(log) >= 1
               /\ log[Len(log)].exc = NoExc
               /\ model # NoModel
               /\ model.kind = log[Len(log)].parser
               /\ model.verts = log[Len(log)].loaded

C6_Witness ==
    /\ op = "auto_detect" /\ hint = "None" /\ pc = "returned"
    /\ Len(log) = 3 /\ log[3].parser = Bin

\* C7: whenever a load yields zero vertices, construction fails with the
\* empty-model error before any statistic is computed, and no model is
\* returned.
C7_EmptyModelRejected ==
    /\ \A i \in Attempts :
           (log[i].loadExc = "none" /\ Len(log[i].loaded) = 0) =>
               (log[i].exc = EmptyModelExc /\ ~log[i].statsRun)
    /\ pc = "returned" => Len(model.verts) > 0

C7_Witness ==
    /\ \E i \in Attempts : /\ log[i].parser = Obj
                           /\ log[i].loadExc = "none" /\ log[i].loaded = <<>>
                           /\ log[i].exc = EmptyModelExc
    /\ \E i \in Attempts : /\ log[i].parser = Bin
                           /\ log[i].loadExc = "none" /\ log[i].loaded = <<>>
                           /\ log[i].exc = EmptyModelExc

\* the triangle count a stream of at least 84 bytes declares
Declared(f) == f[81] + 256 * f[82] + 65536 * f[83] + 16777216 * f[84]

\* the stream is shorter than 84 + 50 * triangle_count bytes
Truncated(s) ==
    Len(s) < HeaderLen + 4 \/ (Len(s) - (HeaderLen + 4)) \div 50 < Declared(s)

\* C8: on a stream shorter than 84 + 50 * triangle_count bytes
\* BinaryStlModel fails with the library's truncated-input error and
\* returns no model.
C8_TruncatedIsTypedError ==
    \A i \in Attempts :
        (log[i].parser = Bin /\ Truncated(fileob)) =>
            log[i].exc.type = "ThreeDeeParseError"

\* the signed 32-bit little-endian value at byte offset off
RefI32(f, off) ==
    f[off + 1] + 256 * f[off + 2] + 65536 * f[off + 3]
    + 16777216 * (IF f[off + 4] >= 128 THEN f[off + 4] - 256 ELSE f[off + 4])

\* vertex k of triangle t, read at the offsets of the file format
RefVertex(f, t, k) ==
    LET off == 84 + 50 * t + 12 + 12 * k
    IN  <<RefI32(f, off), RefI32(f, off + 4), RefI32(f, off + 8)>>

\* C9: on a complete stream with declared count n >= 1 load appends exactly
\* 3n vertices, triangle by triangle and vertex by vertex, each from the
\* three 32-bit fields at offset 84 + 50t + 12 + 12k; normals and attribute
\* counts are consumed and not appended, and the cursor ends at 84 + 50n.
C9_BinaryVerticesInOrder ==
    \A i \in Attempts :
        (log[i].parser = Bin /\ ~Truncated(fileob) /\ Declared(fileob) >= 1) =>
            LET n == Declared(fileob)
            IN  /\ log[i].loadExc = "none"
                /\ log[i].loaded =
                       [m \in 1..(3 * n) |->
                           RefVertex(fileob, (m - 1) \div 3, (m - 1) % 3)]
                /\ log[i].loadEnd = 84 + 50 * n

C9_Witness ==
    \E i \in Attempts :
        /\ log[i].parser = Bin /\ ~Truncated(fileob) /\ Declared(fileob) = 2
        /\ Len(log[i].loaded) = 6
        /\ log[i].loaded[1] # log[i].loaded[4]
        /\ \E c \in 1..3 : log[i].loaded[1][c] < 0

\* C10: a line that starts with "v" and carries fewer than three numbers
\* makes ObjModel fail at that line: no vertex with fewer than three
\* coordinates is ever appended to the vertex list, and no model is
\* returned; a longer line contributes its first three numbers.
C10_ShortVertexLineRejected ==
    \A i \in Attempts :
        log[i].parser = Obj =>
            \A k \in 1..Len(log[i].loaded) : Len(log[i].loaded[k]) = Expected

====
